---- MODULE Spec2Model ----
(***************************************************************************)
(* Model of the GPU occupy subsystem of Qytool (src/commands/occupy.py):   *)
(* the capacity planner of _submit_occupy_jobs / _auto_occupy, the job     *)
(* name generator _generate_random_job_names, the manifest builder         *)
(* _build_occupy_yaml and the instance profile table.                      *)
(*                                                                         *)
(* Strings.  Python strings are TLA+ strings.  Where the code orders       *)
(* strings (sorted() over instance types) the order is Python's: the       *)
(* lexicographic order of the code point sequences, given by Ord.  A job   *)
(* name is kept split at its last "-" into [stem, digits]: digits is the   *)
(* run of decimal digits after the last "-" (empty when the text after the *)
(* last "-" is not all digits, and then stem is the whole name).  The      *)
(* split is unique, so two names are the same string exactly when the two  *)
(* records are equal.                                                      *)
(***************************************************************************)
EXTENDS Integers, Sequences, FiniteSets, TLC

VARIABLES
    pc,              \* position of the running function
    path,            \* "submit" (_submit_occupy_jobs) or "auto" (_auto_occupy)
    all_nodes,       \* result of _get_gpu_nodes: sequence of node records
    busy_nodes,      \* result of _get_busy_nodes: set of node names
    free_nodes,      \* nodes of all_nodes whose name is not busy
    batch_plan,      \* sequence of <<batch_size, instance_type>>
    runs,            \* number of planning runs started on this inventory
    prev_plan,       \* batch_plan of the previous planning run; in the patrol, the
                     \* batches of it whose apply succeeded
    count,           \* _generate_random_job_names: number of names asked for
    date_str,        \* _generate_random_job_names: the MMDD text
    existing_names,  \* _generate_random_job_names: names already in the cluster
    combos,          \* the (model, task) pairs, shuffled once per call
    combo_idx,       \* number of pairs tried so far in the call
    names,           \* the names generated so far
    found,           \* whether the last name came from the retry loop
    job_name,        \* _build_occupy_yaml: the job name
    namespace,       \* _build_occupy_yaml: the namespace
    worker_replicas, \* _build_occupy_yaml: the number of Worker replicas asked for
    instance_type,   \* _build_occupy_yaml: the instance type
    profile,         \* _build_occupy_yaml: the profile looked up for instance_type
    pytorchjob,      \* _build_occupy_yaml: the manifest that is dumped
    cluster_nodes,   \* the cluster: its GPU nodes, as kubectl lists them
    cluster_pods,    \* the cluster: the pods of the namespace
    cluster_jobs,    \* the cluster: the names of its PyTorchJobs
    files,           \* names N with a file N.yaml in OCCUPY_YAML_DIR
    patrol_nodes,    \* _auto_patrol: all_nodes of the cycle
    patrol_busy,     \* _auto_patrol: busy_nodes of the cycle
    round_num,       \* _auto_patrol: number of cycles started
    total_occupied,  \* _auto_patrol: cumulative number of occupied nodes
    yaml_files,      \* names of the manifest files written for the plan, in order
    applied,         \* apply_yaml calls of the run: [name, ok], in order
    success_count,   \* _auto_occupy: applies that succeeded; _delete_occupy_jobs: deletions that did
    exc,             \* the exception raised last: [type, at]
    report,          \* the final report of _auto_patrol
    occupy_jobs,     \* _delete_occupy_jobs: names of the listed jobs that match OCCUPY_NAME_PATTERN
    other_jobs,      \* _delete_occupy_jobs: names of the other listed jobs
    selected,        \* _delete_occupy_jobs: the names to delete, in order;
                     \* _submit_occupy_jobs: the value of the choice taken, in a list
    fail_count       \* _delete_occupy_jobs: deletions that failed

plan_vars == <<path, all_nodes, busy_nodes, free_nodes, batch_plan, runs, prev_plan>>

name_vars == <<count, date_str, existing_names, combos, combo_idx, names, found>>

build_vars == <<job_name, namespace, worker_replicas, instance_type, profile, pytorchjob>>

run_vars == <<cluster_nodes, cluster_pods, cluster_jobs, files, patrol_nodes, patrol_busy,
              round_num, total_occupied, yaml_files, applied, success_count, exc, report>>

del_vars == <<occupy_jobs, other_jobs, selected, fail_count>>

vars == <<pc, plan_vars, name_vars, build_vars, run_vars, del_vars>>

(***************************************************************************)
(* The variables of a function that is not running.                        *)
(***************************************************************************)
PlanIdle ==
    /\ path = ""
    /\ all_nodes = <<>>
    /\ busy_nodes = {}
    /\ free_nodes = <<>>
    /\ batch_plan = <<>>
    /\ runs = 0
    /\ prev_plan = <<>>

NamesIdle ==
    /\ count = 0
    /\ date_str = ""
    /\ existing_names = {}
    /\ combos = <<>>
    /\ combo_idx = 0
    /\ names = <<>>
    /\ found = FALSE

BuildIdle ==
    /\ job_name = [stem |-> "", digits |-> <<>>]
    /\ namespace = ""
    /\ worker_replicas = 0
    /\ instance_type = ""
    /\ profile = <<>>
    /\ pytorchjob = <<>>

DeleteIdle ==
    /\ occupy_jobs = <<>>
    /\ other_jobs = <<>>
    /\ selected = <<>>
    /\ fail_count = 0

NoException == [type |-> "", at |-> ""]

NoReport == [rounds |-> -1, occupied |-> -1]

RunIdle ==
    /\ cluster_nodes = <<>>
    /\ cluster_pods = {}
    /\ cluster_jobs = {}
    /\ files = {}
    /\ patrol_nodes = <<>>
    /\ patrol_busy = {}
    /\ round_num = 0
    /\ total_occupied = 0
    /\ yaml_files = <<>>
    /\ applied = <<>>
    /\ success_count = 0
    /\ exc = NoException
    /\ report = NoReport

(***************************************************************************)
(* Bounds of the model.                                                    *)
(***************************************************************************)
\* largest number of GPU nodes in an inventory
MaxNodes == 5
\* largest inventory that is listed again in another order
MaxRelist == 3
\* largest number of names asked of one call of the name generator
MaxCount == 7
\* largest number of Worker replicas asked of the manifest builder
MaxWorkers == 4

\* patrol cycles of a run
MaxRounds == 2

(***************************************************************************)
(* Program constants.                                                      *)
(***************************************************************************)
DEFAULT_BATCH_SIZE == 4

\* instance types carried by the nodes of the modelled inventories
NodeTypes == {"ml.p5en.48xlarge", "ml.p5.48xlarge", "unknown"}

\* code points of the strings the code compares
Ord ==
    [s \in {"ml.p5en.48xlarge", "ml.p5e.48xlarge", "ml.p5.48xlarge",
            "ml.p4d.24xlarge", "ml.p4de.24xlarge", "ml.g5.48xlarge",
            "unknown", "totally-unknown-type"} |->
       CASE s = "ml.p5en.48xlarge" -> <<109,108,46,112,53,101,110,46,52,56,120,108,97,114,103,101>>
         [] s = "ml.p5e.48xlarge"  -> <<109,108,46,112,53,101,46,52,56,120,108,97,114,103,101>>
         [] s = "ml.p5.48xlarge"   -> <<109,108,46,112,53,46,52,56,120,108,97,114,103,101>>
         [] s = "ml.p4d.24xlarge"  -> <<109,108,46,112,52,100,46,50,52,120,108,97,114,103,101>>
         [] s = "ml.p4de.24xlarge" -> <<109,108,46,112,52,100,101,46,50,52,120,108,97,114,103,101>>
         [] s = "ml.g5.48xlarge"   -> <<109,108,46,103,53,46,52,56,120,108,97,114,103,101>>
         [] s = "unknown"          -> <<117,110,107,110,111,119,110>>
         [] s = "totally-unknown-type" ->
                <<116,111,116,97,108,108,121,45,117,110,107,110,111,119,110,45,116,121,112,101>>]

RECURSIVE LexLess(_, _)
\* a < b for two code point sequences, as Python compares str
LexLess(a, b) ==
    IF b = <<>> THEN FALSE
    ELSE IF a = <<>> THEN TRUE
    ELSE IF Head(a) # Head(b) THEN Head(a) < Head(b)
    ELSE LexLess(Tail(a), Tail(b))

StrLess(s, t) == LexLess(Ord[s], Ord[t])

Min(a, b) == IF a < b THEN a ELSE b

(***************************************************************************)
(* Capacity planner: _submit_occupy_jobs steps 1-6, _auto_occupy.          *)
(***************************************************************************)
\* the list without the filter: every node counts as free
FreeNodesUnfiltered(nodes, busy) == nodes

\* [n for n in all_nodes if n["name"] not in busy_nodes]
FreeNodes(nodes, busy) ==
    LET NotBusy(n) == n.name \notin busy
    IN  SelectSeq(nodes, NotBusy)

\* free_by_type.setdefault(itype, []).append(n) over the free nodes
FreeByType(free) ==
    [t \in {free[i].instance_type : i \in DOMAIN free} |->
        LET OfType(n) == n.instance_type = t IN SelectSeq(free, OfType)]

\* only the type of the first free node gets a key
KeysFirstOnly(free) == IF free = <<>> THEN <<>> ELSE <<Head(free).instance_type>>

RECURSIVE Keys(_)
\* free_by_type.keys(): the types in the order the dict first saw them
Keys(free) ==
    IF free = <<>> THEN <<>>
    ELSE LET t == Head(free).instance_type
             Other(n) == n.instance_type # t
         IN  <<t>> \o Keys(SelectSeq(Tail(free), Other))

RECURSIVE InsertSorted(_, _)
InsertSorted(k, s) ==
    IF s = <<>> THEN <<k>>
    ELSE IF ~StrLess(Head(s), k) THEN <<k>> \o s
    ELSE <<Head(s)>> \o InsertSorted(k, Tail(s))

\* the keys left in dict order: the loop without sorted()
Unsorted(keys) == keys

RECURSIVE Descending(_)
\* the keys in descending order: sorted(..., reverse=True)
Descending(keys) ==
    IF keys = <<>> THEN <<>>
    ELSE LET rest == Descending(Tail(keys))
             Above(k) == StrLess(Head(keys), k)
             Below(k) == ~StrLess(Head(keys), k)
         IN  SelectSeq(rest, Above) \o <<Head(keys)>> \o SelectSeq(rest, Below)

RECURSIVE Sorted(_)
\* sorted(keys): ascending in Python's string order
Sorted(keys) ==
    IF keys = <<>> THEN <<>>
    ELSE InsertSorted(Head(keys), Sorted(Tail(keys)))

RECURSIVE BatchesUnsplit(_, _)
\* the loop without min(): one batch takes all that remains
BatchesUnsplit(itype, remaining) ==
    IF remaining > 0
    THEN <<<<remaining, itype>>>> \o BatchesUnsplit(itype, 0)
    ELSE <<>>

RECURSIVE Batches(_, _)
\* while remaining > 0: batch = min(DEFAULT_BATCH_SIZE, remaining); append; remaining -= batch
Batches(itype, remaining) ==
    IF remaining > 0
    THEN LET batch == Min(DEFAULT_BATCH_SIZE, remaining)
         IN  <<<<batch, itype>>>> \o Batches(itype, remaining - batch)
    ELSE <<>>

RECURSIVE PlanOver(_, _)
\* for itype in <order>: the batches of itype, concatenated
PlanOver(order, by_type) ==
    IF order = <<>> THEN <<>>
    ELSE Batches(Head(order), Len(by_type[Head(order)])) \o PlanOver(Tail(order), by_type)

\* for itype in sorted(free_by_type.keys()): ...
BatchPlan(free) ==
    LET by_type == FreeByType(free)
    IN  PlanOver(Sorted(Keys(free)), by_type)

\* a batch of the plan is the tuple (batch_size, instance_type)
BatchSize(b) == b[1]
BatchType(b) == b[2]

RECURSIVE SumSizes(_)
\* sum(b[0] for b in batch_plan)
SumSizes(plan) == IF plan = <<>> THEN 0 ELSE BatchSize(Head(plan)) + SumSizes(Tail(plan))

(***************************************************************************)
(* Job names: _generate_random_job_names.                                  *)
(***************************************************************************)
MODEL_NAMES == <<"qwen3", "qwen25">>
TASK_TYPES == <<"retool", "search", "swebench">>

\* the name split at its last "-": stem "-" digits
Name(stem, digits) == [stem |-> stem, digits |-> digits]

\* m.lower().replace(".", "").replace("_", "-"): the entries of MODEL_NAMES and
\* TASK_TYPES hold lower case letters and digits only and come out unchanged
K8sName(s) == s

\* for m in MODEL_NAMES: for t in TASK_TYPES: combos.append((model, task))
Combos ==
    [k \in 1..(Len(MODEL_NAMES) * Len(TASK_TYPES)) |->
        <<K8sName(MODEL_NAMES[((k - 1) \div Len(TASK_TYPES)) + 1]),
          K8sName(TASK_TYPES[((k - 1) % Len(TASK_TYPES)) + 1])>>]

\* f"run-{model}-{task}-{date_str}"
Prefix(model, task, date) == "run-" \o model \o "-" \o task \o "-" \o date

RECURSIVE DigitsToInt(_)
\* int(m.group(1)) for a run of decimal digits
DigitsToInt(digits) ==
    IF digits = <<>> THEN 0
    ELSE 10 * DigitsToInt(SubSeq(digits, 1, Len(digits) - 1)) + digits[Len(digits)]

RECURSIVE IntToDigits(_)
\* str(n) for n >= 0
IntToDigits(n) ==
    IF n < 10 THEN <<n>> ELSE Append(IntToDigits(n \div 10), n % 10)

\* f"{n:02d}": at least two digits, zero padded on the left
Format02d(n) ==
    LET d == IntToDigits(n) IN IF Len(d) < 2 THEN <<0>> \o d ELSE d

\* the pattern with exactly two digits
MatchesPrefixTwoDigits(prefix, name) == name.stem = prefix /\ Len(name.digits) = 2

\* re.match(rf"^{re.escape(prefix)}-(\d+)$", existing)
MatchesPrefix(prefix, name) == name.stem = prefix /\ name.digits # <<>>

RECURSIVE MaxOf(_)
MaxOf(S) ==
    IF S = {} THEN 0
    ELSE LET x == CHOOSE y \in S : TRUE
             m == MaxOf(S \ {x})
         IN  IF x > m THEN x ELSE m

\* the scan that forgets the names of this call: for existing in existing_names
MaxIdxExistingOnly(prefix, existing, generated) ==
    MaxOf({DigitsToInt(e.digits) : e \in {x \in existing : MatchesPrefix(prefix, x)}})

\* the scan that counts the names under the prefix instead of taking the maximum
MaxIdxCount(prefix, existing, generated) ==
    Cardinality({x \in existing \cup {generated[i] : i \in DOMAIN generated} :
                    MatchesPrefix(prefix, x)})

\* max_idx = max(max_idx, int(m.group(1))) over existing_names | set(names)
MaxIdx(prefix, existing, generated) ==
    LET used == existing \cup {generated[i] : i \in DOMAIN generated}
    IN  MaxOf({DigitsToInt(e.digits) : e \in {x \in used : MatchesPrefix(prefix, x)}})

\* the lookup that never leaves the first pair
ComboAtFirst(shuffled, k) == shuffled[1]

\* combos[combo_idx % len(combos)]
ComboAt(shuffled, k) == shuffled[(k % Len(shuffled)) + 1]

\* while attempts < len(combos) * 100: ... ; gives found, the name and combo_idx.
\* Attempt a (from 0) proposes the name of pair combo_idx + a; the loop ends at
\* the first attempt whose name is free, or after len(combos) * 100 attempts.
RetryLoop(shuffled, idx, date, existing, generated) ==
    LET limit == Len(shuffled) * 100
        Proposal(a) ==
            LET combo   == ComboAt(shuffled, idx + a)
                prefix  == Prefix(combo[1], combo[2], date)
                max_idx == MaxIdx(prefix, existing, generated)
            IN  Name(prefix, Format02d(max_idx + 1))
        IsFree(a) ==
            /\ Proposal(a) \notin existing
            /\ Proposal(a) \notin {generated[i] : i \in DOMAIN generated}
    IN  IF \E a \in 0..(limit - 1) : IsFree(a)
        THEN LET first == CHOOSE a \in 0..(limit - 1) :
                              IsFree(a) /\ \A b \in 0..(a - 1) : ~IsFree(b)
             IN  [found |-> TRUE, name |-> Proposal(first), idx |-> idx + first + 1]
        ELSE [found |-> FALSE, name |-> Name("", <<>>), idx |-> idx + limit]

\* month and day texts of the names of the model
Dates == {"0615", "0616"}

\* OCCUPY_NAME_PATTERN.match(name): ^run-[a-z0-9]+-[a-z0-9]+-\d{4}-\d{2}$
OCCUPY_NAME_PATTERN(name) ==
    /\ Len(name.digits) = 2
    /\ name.stem \in {Prefix(MODEL_NAMES[m], TASK_TYPES[t], d) :
                        m \in DOMAIN MODEL_NAMES, t \in DOMAIN TASK_TYPES, d \in Dates}

\* f"run-qwen3-retool-{date_str}-{random.randint(50, 99):02d}"
FallbackName(date, rnd) == Name("run-qwen3-retool-" \o date, Format02d(rnd))

\* names that the cluster may already hold
ExistingUniverse ==
    { Name("run-qwen3-retool-0615", <<0, 1>>),
      Name("run-qwen3-retool-0615", <<0, 2>>),
      Name("run-qwen3-retool-0615", <<9, 9>>),
      Name("run-qwen3-retool-0616", <<0, 5>>),
      Name("run-qwen25-search-0615", <<7>>) }

InitNames ==
    /\ pc = "gen_start"
    /\ count \in 0..MaxCount
    /\ date_str = "0615"
    /\ existing_names \in SUBSET ExistingUniverse
    /\ combos = Combos
    /\ combo_idx = 0
    /\ names = <<>>
    /\ found = FALSE
    /\ PlanIdle
    /\ BuildIdle
    /\ RunIdle
    /\ DeleteIdle

\* the loop over range(count - 1): one pass short
RangeDoneShort(i, n) == i >= n - 1

\* "for _ in range(count)" has no pass left after i passes
RangeDone(i, n) == i >= n

\* random.shuffle(combos)
Shuffle ==
    /\ pc = "gen_start"
    /\ \E p \in Permutations(DOMAIN combos) :
         combos' = [k \in DOMAIN combos |-> combos[p[k]]]
    /\ pc' = IF RangeDone(0, count) THEN "returned" ELSE "gen_loop"
    /\ UNCHANGED <<count, date_str, existing_names, combo_idx, names, found>>
    /\ UNCHANGED <<plan_vars, build_vars, del_vars, run_vars>>

\* one pass of "for _ in range(count)"
GenerateName ==
    /\ pc = "gen_loop"
    /\ ~RangeDone(Len(names), count)
    /\ LET r == RetryLoop(combos, combo_idx, date_str, existing_names, names)
       IN  /\ found' = r.found
           /\ combo_idx' = r.idx
           /\ IF r.found
              THEN names' = Append(names, r.name)
              ELSE \E rnd \in 50..99 : names' = Append(names, FallbackName(date_str, rnd))
    /\ pc' = IF RangeDone(Len(names'), count) THEN "returned" ELSE "gen_loop"
    /\ UNCHANGED <<count, date_str, existing_names, combos>>
    /\ UNCHANGED <<plan_vars, build_vars, del_vars, run_vars>>

NextNames ==
    \/ Shuffle
    \/ GenerateName

SpecNames == InitNames /\ [][NextNames]_vars

(***************************************************************************)
(* Inventories: what _get_gpu_nodes and _get_busy_nodes can return.        *)
(***************************************************************************)
NodeName(i) == "node-" \o ToString(i)

\* the inventories of the planner model: any types, and at most one node NotReady
Inventories ==
    UNION {{[i \in 1..n |-> [ready |-> i \notin down, instance_type |-> types[i]]] :
               types \in [1..n -> NodeTypes], down \in {{}} \cup {{k} : k \in 1..n}} :
           n \in 0..MaxNodes}

Listing(inv) ==
    [i \in DOMAIN inv |->
        [name |-> NodeName(i), ready |-> inv[i].ready, instance_type |-> inv[i].instance_type]]

InitPlan ==
    /\ pc = "start"
    /\ path \in {"submit", "auto"}
    /\ \E inv \in Inventories :
         /\ all_nodes = Listing(inv)
         /\ busy_nodes \in SUBSET {NodeName(i) : i \in DOMAIN inv}
    /\ free_nodes = <<>>
    /\ batch_plan = <<>>
    /\ runs = 1
    /\ prev_plan = <<>>
    /\ NamesIdle
    /\ BuildIdle
    /\ RunIdle
    /\ DeleteIdle

\* the planning steps shared by the two entry points
PlanSteps ==
    /\ pc = "start"
    /\ IF all_nodes = <<>>
       THEN /\ pc' = "no_nodes"
            /\ UNCHANGED <<free_nodes, batch_plan>>
       ELSE LET free == FreeNodes(all_nodes, busy_nodes)
            IN  /\ free_nodes' = free
                /\ IF free = <<>>
                   THEN /\ pc' = "no_free"
                        /\ UNCHANGED batch_plan
                   ELSE /\ pc' = "planned"
                        /\ batch_plan' = BatchPlan(free)
    /\ UNCHANGED <<path, all_nodes, busy_nodes, runs, prev_plan>>
    /\ UNCHANGED <<name_vars, build_vars, del_vars, run_vars>>

\* _submit_occupy_jobs, steps 1 to 6
SubmitOccupyJobsPlan ==
    /\ path = "submit"
    /\ PlanSteps

\* _auto_occupy up to the batch plan
AutoOccupyPlan ==
    /\ path = "auto"
    /\ PlanSteps

\* a second planning run: the cluster lists the same nodes in another order
Relist ==
    /\ pc \in {"no_nodes", "no_free", "planned"}
    /\ runs = 1
    /\ Len(all_nodes) <= MaxRelist
    /\ \E p \in Permutations(DOMAIN all_nodes) :
         all_nodes' = [i \in DOMAIN all_nodes |-> all_nodes[p[i]]]
    /\ runs' = 2
    /\ prev_plan' = batch_plan
    /\ batch_plan' = <<>>
    /\ free_nodes' = <<>>
    /\ pc' = "start"
    /\ UNCHANGED <<path, busy_nodes>>
    /\ UNCHANGED <<name_vars, build_vars, del_vars, run_vars>>

NextPlan ==
    \/ SubmitOccupyJobsPlan
    \/ AutoOccupyPlan
    \/ Relist

SpecPlan == InitPlan /\ [][NextPlan]_vars

(***************************************************************************)
(* Instance profiles and the manifest builder: _get_instance_profile,      *)
(* _build_occupy_yaml.                                                     *)
(***************************************************************************)
Profile(gpus, efa, gpu_model, description) ==
    [gpus |-> gpus, efa |-> efa, gpu_model |-> gpu_model, description |-> description]

GPU_INSTANCE_PROFILES ==
    [t \in {"ml.p5en.48xlarge", "ml.p5e.48xlarge", "ml.p5.48xlarge",
            "ml.p4d.24xlarge", "ml.p4de.24xlarge", "ml.g5.48xlarge"} |->
       CASE t = "ml.p5en.48xlarge" -> Profile(8, 16, "H200", "8×H200 (p5en)")
         [] t = "ml.p5e.48xlarge"  -> Profile(8, 32, "H200", "8×H200 (p5e)")
         [] t = "ml.p5.48xlarge"   -> Profile(8, 32, "H100", "8×H100 (p5)")
         [] t = "ml.p4d.24xlarge"  -> Profile(8, 4, "A100", "8×A100 (p4d)")
         [] t = "ml.p4de.24xlarge" -> Profile(8, 4, "A100-80G", "8×A100-80G (p4de)")
         [] t = "ml.g5.48xlarge"   -> Profile(8, 1, "A10G", "8×A10G (g5)")]

DEFAULT_GPU_PROFILE == Profile(8, 16, "Unknown", "Unknown GPU")

\* what a failed lookup leaves in place of a profile
KeyError == Profile(-1, -1, "KeyError", "KeyError")

\* the lookup by subscript: GPU_INSTANCE_PROFILES[instance_type]
get_instance_profile_subscript(itype) ==
    IF itype \in DOMAIN GPU_INSTANCE_PROFILES THEN GPU_INSTANCE_PROFILES[itype] ELSE KeyError

\* GPU_INSTANCE_PROFILES.get(instance_type, DEFAULT_GPU_PROFILE)
get_instance_profile(itype) ==
    IF itype \in DOMAIN GPU_INSTANCE_PROFILES
    THEN GPU_INSTANCE_PROFILES[itype]
    ELSE DEFAULT_GPU_PROFILE

\* the test "if worker_replicas >= 0"
HasWorkersFromZero(replicas) == replicas >= 0

\* if worker_replicas > 0
HasWorkers(replicas) == replicas > 0

\* resources = {"requests": {...}, "limits": {...}}
Resources(gpu_count, efa_count) ==
    [requests |-> ("nvidia.com/gpu" :> gpu_count) @@ ("vpc.amazonaws.com/efa" :> efa_count),
     limits   |-> ("nvidia.com/gpu" :> gpu_count) @@ ("vpc.amazonaws.com/efa" :> efa_count)]

IMAGE == "054486717055.dkr.ecr.ap-southeast-3.amazonaws.com/youtu-agent:agent-lightning-0.2.2-1218-aws"

\* the ports of the Master container
MasterPorts == {6379, 8265, 10001, 8000, 8080}

\* master_container / worker_container; cmd is occupy_cmd.format(role=...)
Container(role, itype, resources, ports) ==
    [name |-> "pytorch", image |-> IMAGE, imagePullPolicy |-> "Always",
     ports |-> ports, resources |-> resources,
     args |-> [role |-> role, instance_type |-> itype]]

\* one entry of pytorchReplicaSpecs
ReplicaSpec(replicas, itype, container) ==
    [replicas |-> replicas,
     restartPolicy |-> "OnFailure",
     nodeSelector |-> ("node.kubernetes.io/instance-type" :> itype),
     containers |-> <<container>>]

\* the dict that _build_occupy_yaml dumps, and the profile it looked up
build_occupy_yaml(name, ns, replicas, itype) ==
    LET prof      == get_instance_profile(itype)
        gpu_count == prof.gpus
        efa_count == prof.efa
        resources == Resources(gpu_count, efa_count)
        master    == ReplicaSpec(1, itype, Container("Master", itype, resources, MasterPorts))
        worker    == ReplicaSpec(replicas, itype, Container("Worker", itype, resources, {}))
    IN  [profile |-> prof,
         pytorchjob |->
           [apiVersion |-> "kubeflow.org/v1",
            kind |-> "PyTorchJob",
            metadata |-> [name |-> name, namespace |-> ns],
            spec |-> [nprocPerNode |-> IntToDigits(gpu_count),
                      pytorchReplicaSpecs |->
                          IF HasWorkers(replicas)
                          THEN ("Master" :> master) @@ ("Worker" :> worker)
                          ELSE ("Master" :> master)]]]

\* instance types handed to the builder: the six of the table and two others
InstanceTypes == DOMAIN GPU_INSTANCE_PROFILES \cup {"unknown", "totally-unknown-type"}

\* job names handed to the builder
JobNames ==
    { Name("run-qwen3-retool-0615", <<0, 1>>),
      Name("run-qwen25-swebench-0615", <<1, 0, 0>>),
      Name("my-train-job", <<>>) }

InitBuild ==
    /\ pc = "build_start"
    /\ job_name \in JobNames
    /\ namespace = "ray-system"
    /\ worker_replicas \in 0..MaxWorkers
    /\ instance_type \in InstanceTypes
    /\ profile = <<>>
    /\ pytorchjob = <<>>
    /\ PlanIdle
    /\ NamesIdle
    /\ RunIdle
    /\ DeleteIdle

\* _build_occupy_yaml(job_name, namespace, worker_replicas, instance_type)
BuildOccupyYaml ==
    /\ pc = "build_start"
    /\ LET built == build_occupy_yaml(job_name, namespace, worker_replicas, instance_type)
       IN  /\ profile' = built.profile
           /\ pytorchjob' = built.pytorchjob
    /\ pc' = "built"
    /\ UNCHANGED <<job_name, namespace, worker_replicas, instance_type>>
    /\ UNCHANGED <<plan_vars, name_vars, run_vars, del_vars>>

NextBuild == BuildOccupyYaml

SpecBuild == InitBuild /\ [][NextBuild]_vars

(***************************************************************************)
(* The cluster and its query responses: run_kubectl, _get_gpu_nodes,       *)
(* _get_busy_nodes, _get_existing_job_names, apply_yaml.                   *)
(***************************************************************************)
\* month and day of the runs of the pipeline model
Today == "0615"

\* the namespace of the runs of the pipeline model
RunNamespace == "default"

\* instance-type labels of the cluster's GPU nodes; "" is a node without the label
ClusterLabels == {"ml.p5.48xlarge", ""}

\* a node of the cluster that reports no nvidia.com/gpu capacity
CpuNode == [name |-> "node-0", ready |-> TRUE, label |-> "m5.large", gpu |-> 0]

\* names of the GPU nodes a cluster of the pipeline model may have
ClusterNodeNames == <<"node-1", "node-2">>

\* the items of `kubectl get nodes`: some first GPU nodes, then the CPU node
ClusterListings ==
    UNION {{[i \in 1..(n + 1) |->
               IF i <= n
               THEN [name |-> ClusterNodeNames[i], ready |-> TRUE, label |-> lab[i], gpu |-> 8]
               ELSE CpuNode] : lab \in [1..n -> ClusterLabels]} :
           n \in 0..Len(ClusterNodeNames)}

Pod(phase, nodeName) == [phase |-> phase, nodeName |-> nodeName]

\* the pods the namespace may hold
PodUniverse ==
    {Pod("Running", ClusterNodeNames[1]), Pod("Pending", ClusterNodeNames[2])}

\* the PyTorchJobs the cluster may hold before the run
JobUniverse == {Name("run-qwen3-retool-" \o Today, <<0, 1>>)}

\* (rc, stdout, stderr) of run_kubectl; a timeout and a missing kubectl give rc 1
Response(rc, kind, items) == [rc |-> rc, kind |-> kind, items |-> items]

\* the answers `kubectl get ... -o json` can give for the items of the cluster:
\* a non-zero exit, text that is no JSON, a JSON array, and the object that
\* lists the items
JsonResponses(items) ==
    {Response(1, "", <<>>), Response(0, "not_json", <<>>), Response(0, "array", <<>>),
     Response(0, "object", items)}

\* the exception the body of the try block raises on stdout, "" if none:
\* json.loads(stdout), data.get("items", [])
TryBodyRaises(resp) ==
    IF resp.kind = "not_json" THEN "JSONDecodeError"
    ELSE IF resp.kind = "array" THEN "AttributeError"
    ELSE ""

\* except (json.JSONDecodeError, KeyError)
ReaderCatches(e) == e \in {"JSONDecodeError", "KeyError"}

Returned(value) == [raised |-> "", value |-> value]

Raised(e) == [raised |-> e, value |-> <<>>]

\* labels.get(standard) or labels.get(beta) or "unknown"
InstanceTypeOf(label) == IF label = "" THEN "unknown" ELSE label

\* _get_gpu_nodes on the response of the nodes query
get_gpu_nodes(resp) ==
    IF resp.rc # 0 THEN Returned(<<>>)
    ELSE LET e == TryBodyRaises(resp)
         IN  IF e # ""
             THEN IF ReaderCatches(e) THEN Returned(<<>>) ELSE Raised(e)
             ELSE LET HasGpu(item) == item.gpu # 0
                      gpu_items == SelectSeq(resp.items, HasGpu)
                  IN  Returned([i \in DOMAIN gpu_items |->
                                  [name |-> gpu_items[i].name,
                                   ready |-> gpu_items[i].ready,
                                   instance_type |-> InstanceTypeOf(gpu_items[i].label)]])

\* only the pods that run
BusyPhasesRunningOnly == {"Running"}

\* phase in ("Running", "Pending", "ContainerCreating")
BusyPhases == {"Running", "Pending", "ContainerCreating"}

\* _get_busy_nodes on the response of the pods query
get_busy_nodes(resp) ==
    IF resp.rc # 0 THEN Returned({})
    ELSE LET e == TryBodyRaises(resp)
         IN  IF e # ""
             THEN IF ReaderCatches(e) THEN Returned({}) ELSE Raised(e)
             ELSE Returned({p.nodeName : p \in {q \in resp.items :
                                q.phase \in BusyPhases /\ q.nodeName # ""}})

\* the job-name query answers with the names or fails (rc 1, timeout included)
JobNameResponses(jobs) == {[rc |-> 0, names |-> jobs], [rc |-> 1, names |-> {}]}

\* _get_existing_job_names: set() if rc != 0 or the output is blank, else the names
get_existing_job_names(resp) ==
    IF resp.rc # 0 \/ resp.names = {} THEN {} ELSE resp.names

\* outcomes of random.shuffle(combos) taken by the pipeline model
ShuffleOutcomes ==
    {Combos, [i \in DOMAIN Combos |-> Combos[Len(Combos) + 1 - i]]}

RECURSIVE GenerateFrom(_, _, _, _, _, _)
\* the for loop of _generate_random_job_names from pass Len(generated) on:
\* the lists it can return
GenerateFrom(n, shuffled, idx, date, existing, generated) ==
    IF RangeDone(Len(generated), n) THEN {generated}
    ELSE LET r == RetryLoop(shuffled, idx, date, existing, generated)
         IN  IF r.found
             THEN GenerateFrom(n, shuffled, r.idx, date, existing, Append(generated, r.name))
             ELSE UNION {GenerateFrom(n, shuffled, r.idx, date, existing,
                                      Append(generated, FallbackName(date, rnd))) :
                         rnd \in 50..99}

\* _generate_random_job_names(n, date_str, existing_names): the lists it can return
generate_random_job_names(n, date, existing) ==
    UNION {GenerateFrom(n, shuffled, 0, date, existing, <<>>) : shuffled \in ShuffleOutcomes}

\* _auto_occupy: total_nodes = sum(b[0] for b in batch_plan);
\* return total_nodes if success_count > 0 else 0
Occupied(plan, successes) == IF successes > 0 THEN SumSizes(plan) ELSE 0

\* the inner handler catches nothing
ExceptNothing(e) == FALSE

\* _auto_patrol: except Exception (KeyboardInterrupt is no Exception)
ExceptException(e) == e # "KeyboardInterrupt"

\* _auto_patrol: except KeyboardInterrupt
ExceptKeyboardInterrupt(e) == e = "KeyboardInterrupt"

\* the report with the number of completed cycles
PatrolReportCompleted(rounds, total) ==
    [rounds |-> IF rounds > 0 THEN rounds - 1 ELSE 0, occupied |-> total]

\* the report panel of _auto_patrol: round_num and total_occupied
PatrolReport(rounds, total) == [rounds |-> rounds, occupied |-> total]

\* a manifest file of OCCUPY_YAML_DIR: {job_name}.yaml and its content
File(name, content) == [name |-> name, content |-> content]

FileNames(fs) == {f.name : f \in fs}

\* the write that leaves nothing else in the directory
WriteFileAlone(fs, name, content) == {File(name, content)}

\* open(output_path, "w"); f.write(yaml_content)
WriteFile(fs, name, content) == {f \in fs : f.name # name} \cup {File(name, content)}

\* the decline branch without the clean-up: only the first file is removed
RemoveFirstFile(fs, paths) == {f \in fs : paths = <<>> \/ f.name # paths[1]}

\* if os.path.exists(f): os.remove(f), for every f of the list
RemoveFiles(fs, paths) == {f \in fs : f.name \notin {paths[i] : i \in DOMAIN paths}}

\* the deletion loop with a break after a failed deletion
DeleteLoopStopsOnFailure(i, n, rc) == i >= n \/ rc # 0

\* for name in selected: the loop is over after the pass of the last name,
\* whatever kubectl delete returned
DeleteLoopOver(i, n, rc) == i >= n

\* the loop with a break after a failed apply
ApplyLoopBreaksOnFailure(i, n, success) == i >= n \/ ~success

\* for yaml_file in yaml_files: the loop is over after the pass of the last file,
\* whatever apply_yaml returned
ApplyLoopOver(i, n, success) == i >= n

(***************************************************************************)
(* The submission pipeline: _submit_occupy_jobs, and _auto_patrol with     *)
(* _auto_occupy.  path is "submit" for the interactive run and "auto" for  *)
(* the patrol; pc is the statement the run is about to execute.            *)
(***************************************************************************)
InitRun ==
    /\ path \in {"submit", "auto"}
    /\ pc = IF path = "submit" THEN "nodes" ELSE "patrol_start"
    /\ cluster_nodes \in ClusterListings
    /\ cluster_pods = {}
    /\ cluster_jobs \in SUBSET JobUniverse
    /\ files = {}
    /\ all_nodes = <<>>
    /\ busy_nodes = {}
    /\ free_nodes = <<>>
    /\ batch_plan = <<>>
    /\ runs = 0
    /\ prev_plan = <<>>
    /\ patrol_nodes = <<>>
    /\ patrol_busy = {}
    /\ round_num = 0
    /\ total_occupied = 0
    /\ yaml_files = <<>>
    /\ applied = <<>>
    /\ success_count = 0
    /\ exc = NoException
    /\ report = NoReport
    /\ NamesIdle
    /\ BuildIdle
    /\ DeleteIdle

\* variables no step of the pipeline writes
RunFrame == UNCHANGED <<path, runs, prev_plan, combos, combo_idx, found, build_vars, del_vars, cluster_nodes>>

\* the statements inside the inner try block of _auto_patrol
InCycle ==
    {"p_nodes", "p_busy", "nodes", "busy", "jobs", "names", "yamls", "apply",
     "return_0", "apply_done"}

\* the statements of _submit_occupy_jobs
InSubmit ==
    {"nodes", "busy", "jobs", "names", "select", "yamls", "confirm", "apply", "apply_done"}

\* an exception e leaves its statement (at names the reader that raised it, or
\* "statement" for any other statement): the inner handler of the patrol
\* catches it and the loop goes to time.sleep; the outer handler prints the
\* report; anything else ends the program
Propagate(e, at) ==
    /\ exc' = [type |-> e, at |-> at]
    /\ IF path = "auto" /\ pc \in InCycle /\ ExceptException(e)
       THEN /\ pc' = "sleeping"
            /\ UNCHANGED report
       ELSE IF path = "auto" /\ ExceptKeyboardInterrupt(e)
       THEN /\ pc' = "stopped"
            /\ report' = PatrolReport(round_num, total_occupied)
       ELSE /\ pc' = "crashed"
            /\ UNCHANGED report

RECURSIVE SucceededBatches(_, _)
\* the batches of the plan for which apply_yaml returned success
SucceededBatches(plan, log) ==
    IF plan = <<>> \/ log = <<>> THEN <<>>
    ELSE (IF Head(log).ok THEN <<Head(plan)>> ELSE <<>>)
         \o SucceededBatches(Tail(plan), Tail(log))

\* the pods of the PyTorchJobs of the cluster while they wait for a node:
\* phase Pending and no spec.nodeName
WaitingPods(jobs) == {Pod("Pending", "") : j \in jobs}

\* _auto_patrol: while True: round_num += 1 (after time.sleep from the second cycle on)
PatrolCycleStart ==
    /\ path = "auto"
    /\ pc \in {"patrol_start", "sleeping"}
    /\ round_num < MaxRounds
    /\ round_num' = round_num + 1
    /\ pc' = "p_nodes"
    /\ all_nodes' = <<>>
    /\ busy_nodes' = {}
    /\ free_nodes' = <<>>
    /\ batch_plan' = <<>>
    /\ patrol_nodes' = <<>>
    /\ patrol_busy' = {}
    /\ count' = 0
    /\ date_str' = ""
    /\ existing_names' = {}
    /\ names' = <<>>
    /\ yaml_files' = <<>>
    /\ applied' = <<>>
    /\ success_count' = 0
    /\ exc' = NoException
    /\ prev_plan' = SucceededBatches(batch_plan, applied)
    /\ UNCHANGED <<cluster_pods, cluster_jobs, files, total_occupied, report>>
    /\ UNCHANGED <<path, runs, combos, combo_idx, found, build_vars, del_vars, cluster_nodes>>

\* _auto_patrol: all_nodes = _get_gpu_nodes(namespace)
PatrolGetGpuNodes ==
    /\ path = "auto"
    /\ pc = "p_nodes"
    /\ \E resp \in JsonResponses(cluster_nodes) :
         LET r == get_gpu_nodes(resp)
         IN  IF r.raised # ""
             THEN /\ Propagate(r.raised, "_get_gpu_nodes")
                  /\ UNCHANGED patrol_nodes
             ELSE /\ patrol_nodes' = r.value
                  /\ pc' = "p_busy"
                  /\ UNCHANGED <<exc, report>>
    /\ UNCHANGED <<all_nodes, busy_nodes, free_nodes, batch_plan, patrol_busy, round_num,
                   total_occupied, yaml_files, applied, success_count, name_vars,
                   cluster_pods, cluster_jobs, files>>
    /\ RunFrame

\* a cycle that acts only on two or more free nodes
HasFreeSeveral(free_count) == free_count > 1

\* if free_count > 0
HasFree(free_count) == free_count > 0

\* _auto_patrol: busy_nodes = _get_busy_nodes(namespace); free_count = ...;
\* if free_count > 0: _auto_occupy(namespace) is called, else the cycle is over
PatrolGetBusyNodes ==
    /\ path = "auto"
    /\ pc = "p_busy"
    /\ \E resp \in JsonResponses(cluster_pods \cup WaitingPods(cluster_jobs)) :
         LET r == get_busy_nodes(resp)
         IN  IF r.raised # ""
             THEN /\ Propagate(r.raised, "_get_busy_nodes")
                  /\ UNCHANGED patrol_busy
             ELSE LET free_count == IF patrol_nodes # <<>>
                                    THEN Len(FreeNodes(patrol_nodes, r.value))
                                    ELSE 0
                  IN  /\ patrol_busy' = r.value
                      /\ pc' = IF HasFree(free_count) THEN "nodes" ELSE "sleeping"
                      /\ UNCHANGED <<exc, report>>
    /\ UNCHANGED <<all_nodes, busy_nodes, free_nodes, batch_plan, patrol_nodes, round_num,
                   total_occupied, yaml_files, applied, success_count, name_vars,
                   cluster_pods, cluster_jobs, files>>
    /\ RunFrame

\* pods of the namespace start, finish or get a node while the run goes on:
\* the pods query of the next statement sees another set
PodsChange ==
    /\ pc \in {"p_busy", "busy"}
    /\ \E pods \in SUBSET PodUniverse :
         /\ pods # cluster_pods
         /\ cluster_pods' = pods
    /\ UNCHANGED <<pc, plan_vars, name_vars, build_vars, del_vars>>
    /\ UNCHANGED <<cluster_nodes, cluster_jobs, files, patrol_nodes, patrol_busy, round_num,
                   total_occupied, yaml_files, applied, success_count, exc, report>>

\* the statement a `return` of the function leads to
AfterReturn0 == IF path = "auto" THEN "return_0" ELSE "returned"

\* _submit_occupy_jobs and _auto_occupy: all_nodes = _get_gpu_nodes(namespace);
\* if not all_nodes: return
GetGpuNodes ==
    /\ pc = "nodes"
    /\ \E resp \in JsonResponses(cluster_nodes) :
         LET r == get_gpu_nodes(resp)
         IN  IF r.raised # ""
             THEN /\ Propagate(r.raised, "_get_gpu_nodes")
                  /\ UNCHANGED all_nodes
             ELSE /\ all_nodes' = r.value
                  /\ pc' = IF r.value = <<>> THEN AfterReturn0 ELSE "busy"
                  /\ UNCHANGED <<exc, report>>
    /\ UNCHANGED <<busy_nodes, free_nodes, batch_plan, patrol_nodes, patrol_busy, round_num,
                   total_occupied, yaml_files, applied, success_count, name_vars,
                   cluster_pods, cluster_jobs, files>>
    /\ RunFrame

\* busy_nodes = _get_busy_nodes(namespace); free_nodes = [...];
\* if not free_nodes: return; the loops that build batch_plan
GetBusyNodesAndPlan ==
    /\ pc = "busy"
    /\ \E resp \in JsonResponses(cluster_pods \cup WaitingPods(cluster_jobs)) :
         LET r == get_busy_nodes(resp)
         IN  IF r.raised # ""
             THEN /\ Propagate(r.raised, "_get_busy_nodes")
                  /\ UNCHANGED <<busy_nodes, free_nodes, batch_plan>>
             ELSE LET free == FreeNodes(all_nodes, r.value)
                  IN  /\ busy_nodes' = r.value
                      /\ free_nodes' = free
                      /\ IF free = <<>>
                         THEN /\ pc' = AfterReturn0
                              /\ UNCHANGED batch_plan
                         ELSE /\ pc' = "jobs"
                              /\ batch_plan' = BatchPlan(free)
                      /\ UNCHANGED <<exc, report>>
    /\ UNCHANGED <<all_nodes, patrol_nodes, patrol_busy, round_num,
                   total_occupied, yaml_files, applied, success_count, name_vars,
                   cluster_pods, cluster_jobs, files>>
    /\ RunFrame

\* date_str = datetime.now().strftime("%m%d");
\* existing_names = _get_existing_job_names(namespace)
GetExistingJobNames ==
    /\ pc = "jobs"
    /\ date_str' = Today
    /\ \E resp \in JobNameResponses(cluster_jobs) :
         existing_names' = get_existing_job_names(resp)
    /\ pc' = "names"
    /\ UNCHANGED <<count, names, combos, combo_idx, found>>
    /\ UNCHANGED <<all_nodes, busy_nodes, free_nodes, batch_plan, patrol_nodes, patrol_busy,
                   round_num, total_occupied, yaml_files, applied, success_count, exc, report,
                   cluster_pods, cluster_jobs, files>>
    /\ UNCHANGED <<path, runs, prev_plan, build_vars, del_vars, cluster_nodes>>

\* job_names = _generate_random_job_names(len(batch_plan), date_str, existing_names)
GenerateRandomJobNames ==
    /\ pc = "names"
    /\ count' = Len(batch_plan)
    /\ names' \in generate_random_job_names(Len(batch_plan), date_str, existing_names)
    /\ pc' = IF path = "submit" THEN "select" ELSE "yamls"
    /\ UNCHANGED <<date_str, existing_names, combos, combo_idx, found>>
    /\ UNCHANGED <<all_nodes, busy_nodes, free_nodes, batch_plan, patrol_nodes, patrol_busy,
                   round_num, total_occupied, yaml_files, applied, success_count, exc, report,
                   cluster_pods, cluster_jobs, files>>
    /\ UNCHANGED <<path, runs, prev_plan, build_vars, del_vars, cluster_nodes>>

DigitChars == <<"0", "1", "2", "3", "4", "5", "6", "7", "8", "9">>

RECURSIVE Str(_)
\* str(i) for i >= 0
Str(i) == IF i < 10 THEN DigitChars[i + 1] ELSE Str(i \div 10) \o DigitChars[(i % 10) + 1]

\* int(selected) for the text of a number below 100
ParseInt(text) == CHOOSE k \in 0..99 : Str(k) = text

\* the selection that keeps the whole list
SelectedAll(list, batch_idx) == list

\* [batch_plan[batch_idx]], [job_names[batch_idx]]: Python counts from 0
SelectedOne(list, batch_idx) == <<list[batch_idx + 1]>>

\* _submit_occupy_jobs: the select prompt: "cancel" returns, "all" keeps the plan,
\* an index keeps that batch and its name
SelectBatches ==
    /\ path = "submit"
    /\ pc = "select"
    /\ \/ /\ selected' = <<"cancel">>
          /\ pc' = "returned"
          /\ UNCHANGED <<batch_plan, names>>
       \/ /\ selected' = <<"all">>
          /\ pc' = "yamls"
          /\ UNCHANGED <<batch_plan, names>>
       \/ \E i \in 0..(Len(batch_plan) - 1) :      \* the choice of value str(i)
            LET batch_idx == ParseInt(Str(i))
            IN  /\ selected' = <<Str(i)>>
                /\ pc' = "yamls"
                /\ batch_plan' = SelectedOne(batch_plan, batch_idx)
                /\ names' = SelectedOne(names, batch_idx)
    /\ UNCHANGED <<count, date_str, existing_names, combos, combo_idx, found>>
    /\ UNCHANGED <<all_nodes, busy_nodes, free_nodes, patrol_nodes, patrol_busy,
                   round_num, total_occupied, yaml_files, applied, success_count, exc, report,
                   cluster_pods, cluster_jobs, files>>
    /\ UNCHANGED <<path, runs, prev_plan, build_vars, cluster_nodes>>
    /\ UNCHANGED <<occupy_jobs, other_jobs, fail_count>>

\* every replica of the job counted as a worker
WorkerCountWhole(batch_size) == batch_size

\* worker_count = batch_size - 1: one Master and N Workers
WorkerCount(batch_size) == batch_size - 1

\* _generate_occupy_yamls: one pass of the for loop writes {job_name}.yaml;
\* after the last pass the list of paths is returned
WriteYaml ==
    /\ pc = "yamls"
    /\ LET i == Len(yaml_files) + 1
           batch_size == batch_plan[i][1]
           itype == batch_plan[i][2]
           worker_count == WorkerCount(batch_size)
           yaml_content == build_occupy_yaml(names[i], RunNamespace, worker_count, itype).pytorchjob
       IN  /\ files' = WriteFile(files, names[i], yaml_content)
           /\ yaml_files' = Append(yaml_files, names[i])
           /\ pc' = IF i < Len(batch_plan) THEN "yamls"
                    ELSE IF path = "submit" THEN "confirm" ELSE "apply"
    /\ UNCHANGED <<all_nodes, busy_nodes, free_nodes, batch_plan, patrol_nodes, patrol_busy,
                   round_num, total_occupied, applied, success_count, exc, report, name_vars,
                   cluster_pods, cluster_jobs>>
    /\ RunFrame

\* _submit_occupy_jobs: if not confirm(...): remove the files and return
Confirm ==
    /\ path = "submit"
    /\ pc = "confirm"
    /\ \E yes \in BOOLEAN :
         IF yes
         THEN /\ pc' = "apply"
              /\ UNCHANGED files
         ELSE /\ pc' = "returned"
              /\ files' = RemoveFiles(files, yaml_files)
    /\ UNCHANGED <<all_nodes, busy_nodes, free_nodes, batch_plan, patrol_nodes, patrol_busy,
                   round_num, total_occupied, yaml_files, applied, success_count, exc, report,
                   name_vars, cluster_pods, cluster_jobs>>
    /\ RunFrame

\* one pass of `for yaml_file in yaml_files`: apply_yaml(yaml_file, namespace)
\* succeeds (the job is in the cluster) or fails; _auto_occupy counts the successes
ApplyYaml ==
    /\ pc = "apply"
    /\ LET i == Len(applied) + 1
           name == yaml_files[i]
       IN  \E success \in BOOLEAN :
             /\ applied' = Append(applied, [name |-> name, ok |-> success])
             /\ cluster_jobs' = IF success THEN cluster_jobs \cup {name} ELSE cluster_jobs
             /\ success_count' = IF success /\ path = "auto"
                                 THEN success_count + 1 ELSE success_count
             /\ pc' = IF ApplyLoopOver(i, Len(yaml_files), success)
                      THEN "apply_done" ELSE "apply"
    /\ UNCHANGED <<all_nodes, busy_nodes, free_nodes, batch_plan, patrol_nodes, patrol_busy,
                   round_num, total_occupied, yaml_files, exc, report, name_vars,
                   cluster_pods, files>>
    /\ RunFrame

\* _submit_occupy_jobs: the summary after the loop, and the return
SubmitSummary ==
    /\ path = "submit"
    /\ pc = "apply_done"
    /\ pc' = "returned"
    /\ UNCHANGED <<plan_vars, name_vars, build_vars, del_vars, run_vars>>

\* _auto_occupy returns to _auto_patrol: occupied = _auto_occupy(namespace);
\* if occupied > 0: total_occupied += occupied
AutoOccupyReturn ==
    /\ path = "auto"
    /\ pc \in {"return_0", "apply_done"}
    /\ LET occupied == IF pc = "return_0" THEN 0 ELSE Occupied(batch_plan, success_count)
       IN  total_occupied' = IF occupied > 0 THEN total_occupied + occupied ELSE total_occupied
    /\ pc' = "sleeping"
    /\ UNCHANGED <<plan_vars, name_vars, build_vars, del_vars>>
    /\ UNCHANGED <<cluster_nodes, cluster_pods, cluster_jobs, files, patrol_nodes, patrol_busy,
                   round_num, yaml_files, applied, success_count, exc, report>>

\* a statement of the run raises: OSError from the file system or from starting
\* kubectl, KeyboardInterrupt when the operator presses Ctrl+C
Raise ==
    /\ \/ path = "auto" /\ pc \in InCycle \cup {"patrol_start", "sleeping"}
       \/ path = "submit" /\ pc \in InSubmit
    /\ \E e \in {"OSError", "KeyboardInterrupt"} :
         /\ e = "OSError" => pc \in InCycle \cup InSubmit
         /\ Propagate(e, "statement")
    /\ UNCHANGED <<plan_vars, name_vars, build_vars, del_vars>>
    /\ UNCHANGED <<cluster_nodes, cluster_pods, cluster_jobs, files, patrol_nodes, patrol_busy,
                   round_num, total_occupied, yaml_files, applied, success_count>>

NextRun ==
    \/ PatrolCycleStart
    \/ PatrolGetGpuNodes
    \/ PatrolGetBusyNodes
    \/ PodsChange
    \/ GetGpuNodes
    \/ GetBusyNodesAndPlan
    \/ GetExistingJobNames
    \/ GenerateRandomJobNames
    \/ SelectBatches
    \/ WriteYaml
    \/ Confirm
    \/ ApplyYaml
    \/ SubmitSummary
    \/ AutoOccupyReturn
    \/ Raise

SpecRun == InitRun /\ [][NextRun]_vars

(***************************************************************************)
(* Batch deletion: _delete_occupy_jobs.                                    *)
(***************************************************************************)
\* the PyTorchJobs the cluster may hold when the deletion starts
DeleteUniverse ==
    {Name("run-qwen3-retool-" \o Today, <<0, 1>>),
     Name("run-qwen25-search-" \o Today, <<0, 2>>),
     Name("my-train-job", <<>>)}

\* the names of DeleteUniverse in Python's ascending string order
NamesAscending ==
    <<Name("my-train-job", <<>>),
      Name("run-qwen25-search-" \o Today, <<0, 2>>),
      Name("run-qwen3-retool-" \o Today, <<0, 1>>)>>

\* sorted(jobs, key=lambda x: x["name"]), as names
SortedByName(jobs) ==
    LET Listed(n) == \E i \in DOMAIN jobs : jobs[i] = n
    IN  SelectSeq(NamesAscending, Listed)

\* the items of `kubectl get pytorchjobs -o json`: the jobs in some order
JobListings(jobs) ==
    {items \in [1..Cardinality(jobs) -> jobs] :
        \A i, j \in DOMAIN items : i # j => items[i] # items[j]}

InitDelete ==
    /\ pc = "del_query"
    /\ cluster_jobs \in SUBSET DeleteUniverse
    /\ files \in SUBSET {File(n, "manifest") : n \in DeleteUniverse}
    /\ cluster_nodes = <<>>
    /\ cluster_pods = {}
    /\ patrol_nodes = <<>>
    /\ patrol_busy = {}
    /\ round_num = 0
    /\ total_occupied = 0
    /\ yaml_files = <<>>
    /\ applied = <<>>
    /\ success_count = 0
    /\ exc = NoException
    /\ report = NoReport
    /\ PlanIdle
    /\ NamesIdle
    /\ BuildIdle
    /\ DeleteIdle

\* variables no step of the deletion writes
DeleteFrame ==
    UNCHANGED <<plan_vars, name_vars, build_vars, cluster_nodes, cluster_pods, patrol_nodes,
                patrol_busy, round_num, total_occupied, yaml_files, applied, report>>

\* the query of the jobs, json.loads, and the split by OCCUPY_NAME_PATTERN;
\* a failed query, unreadable output and an empty list end the function
DeleteQuery ==
    /\ pc = "del_query"
    /\ \E listing \in JobListings(cluster_jobs) :
       \E resp \in JsonResponses(listing) :
         IF resp.rc # 0
         THEN /\ pc' = "returned"
              /\ UNCHANGED <<occupy_jobs, other_jobs, exc>>
         ELSE LET e == TryBodyRaises(resp)
              IN  IF e # ""
                  THEN /\ pc' = IF ReaderCatches(e) THEN "returned" ELSE "crashed"
                       /\ exc' = IF ReaderCatches(e) THEN exc
                                 ELSE [type |-> e, at |-> "_delete_occupy_jobs"]
                       /\ UNCHANGED <<occupy_jobs, other_jobs>>
                  ELSE LET Occupy(n) == OCCUPY_NAME_PATTERN(n)
                           Other(n) == ~OCCUPY_NAME_PATTERN(n)
                       IN  /\ occupy_jobs' = SelectSeq(resp.items, Occupy)
                           /\ other_jobs' = SelectSeq(resp.items, Other)
                           /\ pc' = IF resp.items = <<>> THEN "returned" ELSE "del_select"
                           /\ UNCHANGED exc
    /\ UNCHANGED <<selected, fail_count, success_count, cluster_jobs, files>>
    /\ DeleteFrame

\* the checkbox: the boxes ticked among "all occupy jobs", the job names and
\* "cancel"; nothing ticked or "cancel" ends the function
DeleteSelect ==
    /\ pc = "del_select"
    /\ \E all_occupy \in {FALSE} \cup {occupy_jobs # <<>>}, cancel \in BOOLEAN,
          ticked \in SUBSET ({occupy_jobs[i] : i \in DOMAIN occupy_jobs}
                              \cup {other_jobs[i] : i \in DOMAIN other_jobs}) :
         LET Ticked(n) == n \in ticked
             names_ticked == SelectSeq(SortedByName(occupy_jobs), Ticked)
                             \o SelectSeq(SortedByName(other_jobs), Ticked)
         IN  IF (~all_occupy /\ names_ticked = <<>>) \/ cancel
             THEN /\ pc' = "returned"
                  /\ UNCHANGED selected
             ELSE /\ selected' = IF all_occupy THEN occupy_jobs ELSE names_ticked
                  /\ pc' = "del_confirm"
    /\ UNCHANGED <<occupy_jobs, other_jobs, fail_count, success_count, cluster_jobs, files, exc>>
    /\ DeleteFrame

\* if not confirm_with_input(...): return
DeleteConfirm ==
    /\ pc = "del_confirm"
    /\ \E yes \in BOOLEAN : pc' = IF yes THEN "del_loop" ELSE "returned"
    /\ UNCHANGED <<del_vars, success_count, cluster_jobs, files, exc>>
    /\ DeleteFrame

\* one pass of `for name in selected`: kubectl delete pytorchjob succeeds (the
\* job is gone and its manifest file, if there is one, is removed) or fails
DeleteJob ==
    /\ pc = "del_loop"
    /\ LET i == success_count + fail_count + 1
           name == selected[i]
       IN  \E rc \in {0, 1} :
             /\ IF rc = 0
                THEN /\ success_count' = success_count + 1
                     /\ cluster_jobs' = cluster_jobs \ {name}
                     /\ files' = RemoveFiles(files, <<name>>)
                     /\ UNCHANGED fail_count
                ELSE /\ fail_count' = fail_count + 1
                     /\ UNCHANGED <<success_count, cluster_jobs, files>>
             /\ pc' = IF DeleteLoopOver(i, Len(selected), rc) THEN "del_done" ELSE "del_loop"
    /\ UNCHANGED <<occupy_jobs, other_jobs, selected, exc>>
    /\ DeleteFrame

NextDelete ==
    \/ DeleteQuery
    \/ DeleteSelect
    \/ DeleteConfirm
    \/ DeleteJob

SpecDelete == InitDelete /\ [][NextDelete]_vars

(***************************************************************************)
(* The busy-node reader on pods of every phase: the first statements of    *)
(* _submit_occupy_jobs and _auto_occupy on a namespace that holds pods.    *)
(***************************************************************************)
\* largest number of pods in the namespace
MaxPods == 3

\* status.phase of a pod
PodPhases == {"Running", "Pending", "ContainerCreating", "Succeeded", "Failed"}

\* spec.nodeName of a pod: a GPU node, none yet, or a node that is no GPU node
PodNodeNames == {ClusterNodeNames[1], ClusterNodeNames[2], "", CpuNode.name}

ReaderPods == {Pod(ph, nn) : ph \in PodPhases, nn \in PodNodeNames}

\* the function is at its first statement; in the patrol the cycle has seen a
\* GPU node and no busy node before it called _auto_occupy
InitReaders ==
    /\ path \in {"submit", "auto"}
    /\ pc = "nodes"
    /\ cluster_nodes \in ClusterListings
    /\ cluster_pods \in {ps \in SUBSET ReaderPods : Cardinality(ps) <= MaxPods}
    /\ cluster_jobs = {}
    /\ files = {}
    /\ all_nodes = <<>>
    /\ busy_nodes = {}
    /\ free_nodes = <<>>
    /\ batch_plan = <<>>
    /\ runs = 0
    /\ prev_plan = <<>>
    /\ patrol_nodes = IF path = "auto"
                      THEN get_gpu_nodes(Response(0, "object", cluster_nodes)).value
                      ELSE <<>>
    /\ path = "auto" => patrol_nodes # <<>>
    /\ patrol_busy = {}
    /\ round_num = IF path = "auto" THEN 1 ELSE 0
    /\ total_occupied = 0
    /\ yaml_files = <<>>
    /\ applied = <<>>
    /\ success_count = 0
    /\ exc = NoException
    /\ report = NoReport
    /\ NamesIdle
    /\ BuildIdle
    /\ DeleteIdle

NextReaders ==
    \/ GetGpuNodes
    \/ GetBusyNodesAndPlan

SpecReaders == InitReaders /\ [][NextReaders]_vars


(***************************************************************************)
(* Claims about the capacity planner.                                      *)
(***************************************************************************)
PlanDone == pc \in {"no_nodes", "no_free", "planned"}


\* indexes of the listed nodes of type t whose name is not in the busy set
FreeOfType(t) ==
    {i \in DOMAIN all_nodes :
        all_nodes[i].instance_type = t /\ all_nodes[i].name \notin busy_nodes}

\* indexes of the listed nodes of type t that are not busy and ready
FreeReadyOfType(t) == {i \in FreeOfType(t) : all_nodes[i].ready}


BatchesOfType(plan, t) == LET Is(b) == BatchType(b) = t IN SelectSeq(plan, Is)

\* C1: every batch of a plan built by _submit_occupy_jobs or _auto_occupy
\* carries one instance type, that of some listed node, and has a size
\* between 1 and 4; no batch is empty.
C1_BatchShape ==
    \A i \in DOMAIN batch_plan :
        /\ Len(batch_plan[i]) = 2
        /\ BatchSize(batch_plan[i]) \in 1..4
        /\ BatchType(batch_plan[i]) \in {all_nodes[j].instance_type : j \in DOMAIN all_nodes}

C1_Witness ==
    /\ pc = "planned"
    /\ \E i, j \in DOMAIN batch_plan :
         /\ BatchSize(batch_plan[i]) = 4
         /\ BatchSize(batch_plan[j]) = 1
         /\ BatchType(batch_plan[i]) # BatchType(batch_plan[j])

\* C2: when planning is over, the batch sizes of each instance type add up
\* to the number of listed nodes of that type that are not busy and ready.
C2_SumIsFreeReady ==
    PlanDone =>
        \A t \in NodeTypes :
            SumSizes(BatchesOfType(batch_plan, t)) = Cardinality(FreeReadyOfType(t))

\* Python: sorted() of the node types of the model
AscendingTypes == <<"ml.p5.48xlarge", "ml.p5en.48xlarge", "unknown">>

Rank(t) == CHOOSE r \in DOMAIN AscendingTypes : AscendingTypes[r] = t

\* [4, ..., 4, r] for c nodes: c \div 4 batches of 4, then r = c % 4 when r > 0
SizesFor(c) == [k \in 1..((c + 3) \div 4) |-> IF k <= c \div 4 THEN 4 ELSE c % 4]

C4_SamePlanAnyOrder ==
    (runs = 2 /\ PlanDone) => batch_plan = prev_plan

C4_Witness ==
    /\ runs = 2
    /\ pc = "planned"
    /\ Len(batch_plan) = 2
    /\ all_nodes[1].name = "node-3"
    /\ all_nodes[1].instance_type = "unknown"
    /\ all_nodes[3].instance_type = "ml.p5.48xlarge"

(***************************************************************************)
(* Claims about the job names.                                             *)
(***************************************************************************)
Generated == {names[i] : i \in DOMAIN names}

\* C5: the names of one call are pairwise distinct and none of them is a
\* member of the existing set passed in.
C5_NamesUniqueAndNew ==
    /\ \A i, j \in DOMAIN names : i # j => names[i] # names[j]
    /\ \A i \in DOMAIN names : names[i] \notin existing_names

C5_Witness ==
    /\ pc = "returned"
    /\ count = 7
    /\ names[7].stem = names[1].stem
    /\ names[1].stem = "run-qwen3-retool-0615"
    /\ Name("run-qwen3-retool-0615", <<0, 1>>) \in existing_names

\* numbers found under the stem among the names of S
NumbersUnder(stem, S) == {DigitsToInt(x.digits) : x \in {y \in S : y.stem = stem /\ y.digits # <<>>}}

\* C6: a name that comes out of the retry loop is run-{model}-{task}-{date}
\* followed by "-" and a number that is 1 more than the largest number under
\* the same prefix among the existing names and the names generated before
\* it (0 when there is none); after 01 and 02 comes 03.
C6_NumberIsMaxPlusOne ==
    (names # <<>> /\ found) =>
        LET last   == names[Len(names)]
            before == existing_names \cup {names[i] : i \in 1..(Len(names) - 1)}
            under  == NumbersUnder(last.stem, before)
        IN  /\ \E m \in {"qwen3", "qwen25"}, t \in {"retool", "search", "swebench"} :
                 last.stem = "run-" \o m \o "-" \o t \o "-" \o date_str
            /\ under = {} => DigitsToInt(last.digits) = 1
            /\ under # {} =>
                 /\ DigitsToInt(last.digits) - 1 \in under
                 /\ \A u \in under : u < DigitsToInt(last.digits)
            /\ ( /\ last.stem = "run-qwen3-retool-0615"
                 /\ existing_names = {Name("run-qwen3-retool-0615", <<0, 1>>),
                                      Name("run-qwen3-retool-0615", <<0, 2>>)}
                 /\ Len(names) = 1 )
               => last = Name("run-qwen3-retool-0615", <<0, 3>>)

C6_Witness ==
    /\ pc = "returned"
    /\ found
    /\ existing_names = {Name("run-qwen3-retool-0615", <<0, 1>>),
                         Name("run-qwen3-retool-0615", <<0, 2>>)}
    /\ names = <<Name("run-qwen3-retool-0615", <<0, 3>>)>>

\* C7: every generated name ends in exactly two digits and matches
\* OCCUPY_NAME_PATTERN.
C7_TwoDigitNumber ==
    \A i \in DOMAIN names :
        /\ Len(names[i].digits) = 2
        /\ OCCUPY_NAME_PATTERN(names[i])

\* passes of the loop made so far; -1 before the shuffle
Passes == IF pc = "gen_start" THEN -1 ELSE Len(names)

\* C8: every call returns exactly count names: a call that has returned
\* holds count names, a call inside the loop has a pass left to make, and
\* every step is one more pass of at most count passes.
C8_ReturnsCountNames ==
    /\ [](pc = "returned" => Len(names) = count)
    /\ [](pc = "gen_loop" => Len(names) < count)
    /\ [][Passes' = Passes + 1 /\ Passes' <= count]_vars

C8_Witness ==
    /\ pc = "returned"
    /\ count = 7
    /\ Len(names) = 7
    /\ existing_names = ExistingUniverse

(***************************************************************************)
(* Claims about the manifest and the profiles.                             *)
(***************************************************************************)
Groups == pytorchjob.spec.pytorchReplicaSpecs

\* C9: the manifest has a Master group of 1 replica; it has no Worker group
\* when worker_replicas is 0 and a Worker group of worker_replicas replicas
\* when worker_replicas > 0; in every group the GPU and EFA requests and
\* limits are the gpus and efa of the profile of the instance type.
C9_ManifestShape ==
    pc = "built" =>
        /\ "Master" \in DOMAIN Groups
        /\ Groups["Master"].replicas = 1
        /\ worker_replicas = 0 => DOMAIN Groups = {"Master"}
        /\ worker_replicas > 0 =>
             /\ DOMAIN Groups = {"Master", "Worker"}
             /\ Groups["Worker"].replicas = worker_replicas
        /\ \A g \in DOMAIN Groups :
             LET res == Groups[g].containers[1].resources
                 prof == IF instance_type \in DOMAIN GPU_INSTANCE_PROFILES
                         THEN GPU_INSTANCE_PROFILES[instance_type]
                         ELSE DEFAULT_GPU_PROFILE
             IN  /\ res.requests["nvidia.com/gpu"] = prof.gpus
                 /\ res.limits["nvidia.com/gpu"] = prof.gpus
                 /\ res.requests["vpc.amazonaws.com/efa"] = prof.efa
                 /\ res.limits["vpc.amazonaws.com/efa"] = prof.efa

C9_Witness ==
    /\ pc = "built"
    /\ worker_replicas = 3
    /\ instance_type = "ml.p4d.24xlarge"
    /\ Groups["Worker"].replicas = 3
    /\ Groups["Worker"].containers[1].resources.limits["vpc.amazonaws.com/efa"] = 4

\* C10: the profile looked up for a type of the table is the entry of the
\* table; for any other type it has 8 GPUs, 16 EFA devices and the model
\* "Unknown"; the lookup never fails.
C10_ProfileTotal ==
    pc = "built" =>
        /\ profile # KeyError
        /\ instance_type = "ml.p5en.48xlarge" => profile = Profile(8, 16, "H200", "8×H200 (p5en)")
        /\ instance_type = "ml.p5e.48xlarge" => profile = Profile(8, 32, "H200", "8×H200 (p5e)")
        /\ instance_type = "ml.p5.48xlarge" => profile = Profile(8, 32, "H100", "8×H100 (p5)")
        /\ instance_type = "ml.p4d.24xlarge" => profile = Profile(8, 4, "A100", "8×A100 (p4d)")
        /\ instance_type = "ml.p4de.24xlarge" => profile = Profile(8, 4, "A100-80G", "8×A100-80G (p4de)")
        /\ instance_type = "ml.g5.48xlarge" => profile = Profile(8, 1, "A10G", "8×A10G (g5)")
        /\ instance_type \in {"unknown", "totally-unknown-type"} =>
             /\ profile.gpus = 8
             /\ profile.efa = 16
             /\ profile.gpu_model = "Unknown"

C10_Witness ==
    /\ pc = "built"
    /\ instance_type = "totally-unknown-type"
    /\ profile.gpu_model = "Unknown"

(***************************************************************************)
(* Claims about the submission pipeline and the patrol loop.               *)
(***************************************************************************)
\* C11: in the patrol loop a cycle in which a step raises an exception does not
\* end the loop: the step that raises leads to time.sleep with the cumulative
\* counter unchanged, no step inside a cycle that fails changes the counter, and
\* from the sleep the loop only goes on to the next cycle (or is interrupted).
C11_FailedCycleSleeps ==
    /\ [][(path = "auto" /\ pc \in InCycle /\ exc'.type \notin {"", "KeyboardInterrupt"})
            => (pc' = "sleeping" /\ total_occupied' = total_occupied /\ round_num' = round_num)]_vars
    /\ [][(path = "auto" /\ pc \in InCycle /\ pc' \in InCycle)
            => total_occupied' = total_occupied]_vars
    /\ [][(path = "auto" /\ pc = "sleeping")
            => (pc' \in {"p_nodes", "stopped"} /\ total_occupied' = total_occupied)]_vars

\* a cycle that failed after one of its applies had succeeded, asleep
C11_Witness ==
    /\ path = "auto"
    /\ pc = "sleeping"
    /\ exc.type = "OSError"
    /\ success_count > 0
    /\ round_num < MaxRounds

\* every node of the snapshot is in the busy set (true of an empty snapshot)
NoneFree(nodes, busy) == \A i \in DOMAIN nodes : nodes[i].name \in busy

\* a step in which a reader's answer leaves the run without a free GPU node
NoFreeStep ==
    /\ exc' = exc
    /\ \/ pc = "p_busy" /\ pc' # "p_busy" /\ NoneFree(patrol_nodes, patrol_busy')
       \/ pc = "nodes" /\ all_nodes' = <<>>
       \/ pc = "busy" /\ pc' # "busy" /\ NoneFree(all_nodes, busy_nodes')

\* C12: when there is no free GPU node (no GPU node, or every GPU node busy),
\* _submit_occupy_jobs, _auto_occupy and the patrol cycle generate no name, write
\* no manifest file and issue no apply: the function returns at once, and the
\* patrol goes to sleep with the cumulative counter unchanged.
C12_NothingWithoutFreeNodes ==
    /\ [][NoFreeStep =>
            /\ pc' = IF path = "submit" THEN "returned"
                     ELSE IF pc = "p_busy" THEN "sleeping" ELSE "return_0"
            /\ names' = <<>> /\ yaml_files' = <<>> /\ applied' = <<>>
            /\ files' = files /\ cluster_jobs' = cluster_jobs
            /\ total_occupied' = total_occupied]_vars
    /\ [][pc = "return_0" =>
            /\ pc' \in {"sleeping", "stopped"}
            /\ names' = <<>> /\ yaml_files' = <<>> /\ applied' = <<>>
            /\ files' = files /\ cluster_jobs' = cluster_jobs
            /\ total_occupied' = total_occupied]_vars

\* a patrol cycle after a submitting one finds every GPU node busy and sleeps
C12_Witness ==
    /\ path = "auto"
    /\ pc = "sleeping"
    /\ exc = NoException
    /\ patrol_nodes # <<>>
    /\ NoneFree(patrol_nodes, patrol_busy)
    /\ names = <<>>
    /\ files # {}
    /\ total_occupied > 0

RECURSIVE SucceededNodes(_, _)
\* the sum of the sizes of the batches of the plan whose apply succeeded
SucceededNodes(plan, log) ==
    IF plan = <<>> \/ log = <<>> THEN 0
    ELSE (IF Head(log).ok THEN BatchSize(Head(plan)) ELSE 0)
         + SucceededNodes(Tail(plan), Tail(log))

\* C13: after every patrol cycle that ends without an exception the cumulative
\* counter has grown by exactly the sum of the sizes of the batches whose apply
\* succeeded in the cycle; a batch whose apply failed adds nothing.
C13_CounterGrowsBySucceeded ==
    [][(path = "auto" /\ pc \in InCycle /\ pc' = "sleeping" /\ exc' = exc)
        => total_occupied' = total_occupied + SucceededNodes(batch_plan, applied)]_vars

\* the apply calls made so far are those of the first manifests of the plan, in order
AppliedInPlanOrder ==
    /\ Len(applied) <= Len(yaml_files)
    /\ \A i \in DOMAIN applied : applied[i].name = yaml_files[i] /\ applied[i].name = names[i]

\* the run went through its apply loop and ended without an exception
ApplyLoopLeft ==
    \/ pc = "apply_done"
    \/ pc \in {"sleeping", "returned"} /\ exc = NoException /\ applied # <<>>

\* C14: in a submission run, interactive or patrol, apply is attempted exactly
\* once for every manifest of the plan, in plan order, whatever the applies
\* before it returned: while the loop runs the calls made are a prefix of the
\* plan, and when it is left there is one call per batch of the plan.
C14_EveryManifestApplied ==
    /\ AppliedInPlanOrder
    /\ pc = "apply" => Len(applied) < Len(yaml_files) /\ Len(yaml_files) = Len(batch_plan)
    /\ ApplyLoopLeft => Len(applied) = Len(batch_plan)

\* the first apply of a plan of two batches failed and the second one was made
C14_Witness ==
    /\ pc = "apply_done"
    /\ Len(batch_plan) = 2
    /\ Len(applied) = 2
    /\ ~applied[1].ok
    /\ applied[2].ok

\* _submit_occupy_jobs returned after the user declined the final confirmation
Declined ==
    /\ path = "submit"
    /\ pc = "returned"
    /\ yaml_files # <<>>
    /\ applied = <<>>

\* C15: in the interactive path, when the user declines the final confirmation,
\* every manifest file written for the plan is removed from the manifest
\* directory and no apply is issued for any batch of the plan: the declining
\* step leaves no file of the plan, no apply has been or is made, the cluster's
\* jobs are untouched, and the function has returned, so no step follows.
C15_DeclineRemovesManifests ==
    /\ [][(path = "submit" /\ pc = "confirm" /\ pc' = "returned") =>
            /\ Len(yaml_files) = Len(batch_plan)
            /\ \A i \in DOMAIN yaml_files : yaml_files[i] \notin FileNames(files')
            /\ applied = <<>> /\ applied' = <<>>
            /\ cluster_jobs' = cluster_jobs]_vars
    /\ [][pc # "returned"]_vars

\* the user declined a plan of two batches
C15_Witness ==
    /\ Declined
    /\ Len(yaml_files) = 2

\* C16: when the patrol loop is interrupted at any point of a cycle, no manifest
\* file remains in the manifest directory for a batch of that cycle whose apply
\* was never attempted.
C16_InterruptLeavesNoManifest ==
    (path = "auto" /\ pc = "stopped") =>
        \A i \in DOMAIN yaml_files :
            i > Len(applied) => yaml_files[i] \notin FileNames(files)

\* how far a statement of the cycle is from the cycle's sleep, and the passes its
\* loop has left
CyclePosition ==
    [p_nodes |-> 9, p_busy |-> 8, nodes |-> 7, busy |-> 6, jobs |-> 5, names |-> 4,
     yamls |-> 3, apply |-> 2, return_0 |-> 1, apply_done |-> 1, sleeping |-> 0]

PassesLeft(p, written, made) ==
    IF p = "yamls" THEN Len(batch_plan) - written
    ELSE IF p = "apply" THEN Len(batch_plan) - made
    ELSE 0

\* C17: the patrol loop reaches Stopped only through the operator interrupt, and
\* then the report gives the number of cycles started and the cumulative total;
\* no step follows Stopped; the patrol never ends in another way; a cycle only
\* leads to its sleep and the sleep only to the next cycle, whose number is one
\* more; and every step of a cycle that is not the interrupt brings the cycle
\* nearer to its sleep, its loops having a pass left whenever they are entered,
\* whatever the queries and the applies answered.
C17_StoppedOnlyByInterrupt ==
    /\ [][pc' = "stopped" =>
            /\ path = "auto"
            /\ exc'.type = "KeyboardInterrupt"
            /\ report' = [rounds |-> round_num, occupied |-> total_occupied]]_vars
    /\ [][pc # "stopped"]_vars
    /\ [](path = "auto" => pc \notin {"crashed", "returned"})
    /\ [][(path = "auto" /\ pc \in InCycle) => pc' \in InCycle \cup {"sleeping", "stopped"}]_vars
    /\ [][(path = "auto" /\ pc \in {"patrol_start", "sleeping"} /\ pc' # "stopped")
            => (pc' = "p_nodes" /\ round_num' = round_num + 1)]_vars
    /\ [][(path = "auto" /\ pc \in InCycle /\ pc' # "stopped" /\ cluster_pods' = cluster_pods) =>
            \/ CyclePosition[pc'] < CyclePosition[pc]
            \/ /\ pc' = pc
               /\ PassesLeft(pc', Len(yaml_files'), Len(applied')) >= 0
               /\ PassesLeft(pc', Len(yaml_files'), Len(applied'))
                    < PassesLeft(pc, Len(yaml_files), Len(applied))]_vars
    /\ [](pc = "yamls" => Len(yaml_files) < Len(batch_plan) /\ Len(names) = Len(batch_plan))
    /\ [](pc = "apply" => Len(applied) < Len(yaml_files))

\* the operator stopped the patrol in its second cycle, after a first cycle that
\* occupied nodes: the report counts both cycles
C17_Witness ==
    /\ pc = "stopped"
    /\ report.rounds = 2
    /\ report.occupied > 0
    /\ yaml_files # <<>>

\* the statements of a patrol cycle that has a plan to submit
Submitting == {"jobs", "names", "yamls", "apply", "apply_done"}

\* number of nodes of type t that a snapshot (nodes, busy) shows free
FreeCount(nodes, busy, t) ==
    Cardinality({i \in DOMAIN nodes : nodes[i].instance_type = t /\ nodes[i].name \notin busy})

\* the plan covers, type by type, the nodes that the snapshot shows free
PlanCovers(plan, nodes, busy) ==
    \A t \in {BatchType(plan[i]) : i \in DOMAIN plan}
            \cup {nodes[i].instance_type : i \in DOMAIN nodes} :
        SumSizes(BatchesOfType(plan, t)) = FreeCount(nodes, busy, t)

\* the order of the statements of a patrol cycle
CycleOrder ==
    {<<"p_nodes", "p_busy">>, <<"p_busy", "nodes">>, <<"nodes", "busy">>,
     <<"nodes", "return_0">>, <<"busy", "return_0">>, <<"busy", "jobs">>,
     <<"jobs", "names">>, <<"names", "yamls">>, <<"yamls", "apply">>,
     <<"apply", "apply_done">>}

C19_SubmittedNamesAreNew ==
    (pc = "apply" /\ applied = <<>>) =>
        /\ \A i \in DOMAIN yaml_files : yaml_files[i] \notin cluster_jobs
        /\ \A i, j \in DOMAIN yaml_files : i # j => yaml_files[i] # yaml_files[j]

\* C20: _get_gpu_nodes and _get_busy_nodes never raise: no exception of a run
\* comes out of a reader, and on a non-zero exit code, a timeout or a malformed
\* response _get_gpu_nodes returns the empty list and _get_busy_nodes the empty set.
C20_ReadersNeverRaise ==
    /\ exc.at \notin {"_get_gpu_nodes", "_get_busy_nodes"}
    /\ \A resp \in JsonResponses(cluster_nodes) :
         resp.kind # "object" => get_gpu_nodes(resp) = Returned(<<>>)
    /\ \A resp \in JsonResponses(cluster_pods) :
         resp.kind # "object" => get_busy_nodes(resp) = Returned({})

(***************************************************************************)
(* Claims about the batch deletion.                                        *)
(***************************************************************************)
\* C21: when kubectl deletes a selected job, the file {name}.yaml of that job is
\* not in the manifest directory afterwards, and no later step brings a file
\* back; a deletion that fails does not end the loop, which makes one pass per
\* selected job; and the successes and the failures add up to the number of
\* selected jobs when the loop is over.
C21_DeleteRemovesManifest ==
    /\ [][(pc = "del_loop" /\ success_count' = success_count + 1) =>
            /\ selected[success_count + fail_count + 1] \notin FileNames(files')
            /\ selected[success_count + fail_count + 1] \notin cluster_jobs'
            /\ fail_count' = fail_count]_vars
    /\ [][(pc = "del_loop" /\ fail_count' = fail_count + 1) =>
            (success_count' = success_count /\ files' = files)]_vars
    /\ [][(pc \in {"del_loop", "del_done"}) => (FileNames(files') \subseteq FileNames(files))]_vars
    /\ [](pc = "del_loop" => success_count + fail_count < Len(selected))
    /\ [](pc = "del_done" => success_count + fail_count = Len(selected))

\* the deletion of the first selected job failed, and the second job was
\* deleted with its manifest file
C21_Witness ==
    /\ pc = "del_done"
    /\ Len(selected) = 2
    /\ fail_count = 1
    /\ success_count = 1
    /\ selected[1] \in cluster_jobs
    /\ selected[1] \in FileNames(files)
    /\ selected[2] \notin cluster_jobs
    /\ selected[2] \notin FileNames(files)

(***************************************************************************)
(* Claims about the manifests of a plan.                                   *)
(***************************************************************************)
\* the manifest stored under the file name of a job
ManifestOf(n) == (CHOOSE f \in files : f.name = n).content

\* Master replicas plus Worker replicas, 0 for an absent Worker group
TotalReplicas(job) ==
    LET groups == job.spec.pytorchReplicaSpecs
    IN  groups["Master"].replicas
        + (IF "Worker" \in DOMAIN groups THEN groups["Worker"].replicas ELSE 0)

RECURSIVE WrittenReplicas(_)
\* the replicas of the manifests of the first k batches
WrittenReplicas(k) ==
    IF k = 0 THEN 0 ELSE TotalReplicas(ManifestOf(yaml_files[k])) + WrittenReplicas(k - 1)

\* C22: the manifest written for a batch is the one file named after the job
\* of the batch; its Master and Worker replicas add up to the batch size and
\* every replica group selects the instance type of the batch; the batches of
\* a plan add up to the free nodes, and so do the replicas of the manifests
\* written for a whole plan.
C22_ManifestMatchesBatch ==
    /\ pc \in {"yamls", "confirm", "apply", "apply_done"} =>
          \A i \in DOMAIN yaml_files :
              /\ yaml_files[i] = names[i]
              /\ Cardinality({f \in files : f.name = names[i]}) = 1
              /\ ManifestOf(names[i]).metadata.name = names[i]
              /\ TotalReplicas(ManifestOf(names[i])) = BatchSize(batch_plan[i])
              /\ \A g \in DOMAIN ManifestOf(names[i]).spec.pytorchReplicaSpecs :
                    ManifestOf(names[i]).spec.pytorchReplicaSpecs[g].nodeSelector
                        = ("node.kubernetes.io/instance-type" :> BatchType(batch_plan[i]))
    /\ pc \in {"confirm", "apply", "apply_done"} =>
          /\ Len(yaml_files) = Len(batch_plan)
          /\ WrittenReplicas(Len(yaml_files)) = SumSizes(batch_plan)
    /\ (pc \in {"jobs", "names", "select"} \/ (path = "auto" /\ pc \in {"yamls", "apply", "apply_done"})) =>
          SumSizes(batch_plan) = Len(free_nodes)

\* a batch of two nodes got a manifest with one Master and one Worker
C22_Witness ==
    /\ pc = "apply"
    /\ Len(batch_plan) = 1
    /\ BatchSize(batch_plan[1]) = 2
    /\ ManifestOf(names[1]).spec.pytorchReplicaSpecs["Worker"].replicas = 1
    /\ ManifestOf(names[1]).spec.pytorchReplicaSpecs["Master"].nodeSelector
          = ("node.kubernetes.io/instance-type" :> BatchType(batch_plan[1]))
    /\ Len(free_nodes) = 2

(***************************************************************************)
(* Claims about the busy-node reader.                                      *)
(***************************************************************************)
\* the busy set was read and the free nodes were computed from it
BusyRead == pc \in {"jobs", "return_0", "returned"} /\ exc = NoException /\ all_nodes # <<>>

\* C23: on a listing of the pods, _get_busy_nodes returns exactly the non-empty
\* node names of the pods in phase Running, Pending or ContainerCreating; a
\* pod in another phase or without a node adds no name; a busy name that no
\* GPU node has takes no GPU node out of the free nodes, and computing the
\* free nodes raises nothing.
C23_BusyNodesExact ==
    /\ LET busy == get_busy_nodes(Response(0, "object", cluster_pods))
       IN  /\ busy.raised = ""
           /\ \A nn \in PodNodeNames \cup busy.value :
                 nn \in busy.value <=>
                     /\ nn # ""
                     /\ \/ Pod("Running", nn) \in cluster_pods
                        \/ Pod("Pending", nn) \in cluster_pods
                        \/ Pod("ContainerCreating", nn) \in cluster_pods
    /\ BusyRead =>
          /\ busy_nodes \in {{}, get_busy_nodes(Response(0, "object", cluster_pods)).value}
          /\ \A i \in DOMAIN all_nodes :
                all_nodes[i].name \notin busy_nodes
                    <=> \E j \in DOMAIN free_nodes : free_nodes[j] = all_nodes[i]
          /\ Len(free_nodes)
                = Len(all_nodes) - Cardinality({i \in DOMAIN all_nodes : all_nodes[i].name \in busy_nodes})
    /\ exc.type # "" => exc.at \in {"_get_gpu_nodes", "_get_busy_nodes"}

\* a Pending pod on node-1 and a ContainerCreating pod on the CPU node make
\* both names busy, a Succeeded pod on node-2 does not: node-2 is the free node
C23_Witness ==
    /\ pc = "jobs"
    /\ cluster_pods = {Pod("Pending", ClusterNodeNames[1]),
                       Pod("ContainerCreating", CpuNode.name),
                       Pod("Succeeded", ClusterNodeNames[2])}
    /\ busy_nodes = {ClusterNodeNames[1], CpuNode.name}
    /\ Len(all_nodes) = 2
    /\ Len(free_nodes) = 1
    /\ free_nodes[1].name = ClusterNodeNames[2]

(***************************************************************************)
(* Claims about the manifests that are kept.                               *)
(***************************************************************************)
\* C24: once the applies of a run have begun, every batch whose apply
\* succeeded has its manifest file in the directory, and no later step of the
\* run or of a later patrol cycle takes a file out of the directory: only the
\* declined confirmation, which comes before any apply, removes files.
C24_AppliedManifestsStay ==
    /\ [](\A i \in DOMAIN applied : applied[i].ok => applied[i].name \in FileNames(files))
    /\ [][(path = "auto" \/ applied # <<>> \/ pc \in {"apply", "apply_done"})
            => (FileNames(files) \subseteq FileNames(files'))]_vars
    /\ [][(FileNames(files) \subseteq FileNames(files'))
            \/ (path = "submit" /\ pc = "confirm" /\ pc' = "returned" /\ applied = <<>>)]_vars

\* the second patrol cycle is about to apply its batch, and the manifest of a
\* job that the first cycle applied is still in the directory
C24_Witness ==
    /\ path = "auto"
    /\ round_num = 2
    /\ pc = "apply"
    /\ applied = <<>>
    /\ total_occupied > 0
    /\ \E n \in FileNames(files) :
          /\ n \in cluster_jobs
          /\ \A i \in DOMAIN yaml_files : yaml_files[i] # n

(***************************************************************************)
(* Claims about capacity that a cycle left free.                           *)
(***************************************************************************)
\* what the two queries answer when they succeed
TrueNodes == get_gpu_nodes(Response(0, "object", cluster_nodes)).value

TrueBusy == get_busy_nodes(Response(0, "object", cluster_pods)).value

\* C25: a patrol cycle keeps nothing of the cycle before it. Whatever came of
\* the earlier submissions, a cycle whose queries show the cluster as it is
\* and that is not interrupted calls _auto_occupy when a node is free, and it
\* ends only after a plan that covers every free node was written and every
\* batch of it was applied.
C25_FreeCapacityPlannedAgain ==
    /\ [][(/\ path = "auto"
            /\ pc = "p_busy"
            /\ pc' # "p_busy"
            /\ exc' = NoException
            /\ patrol_nodes = TrueNodes
            /\ patrol_busy' = TrueBusy
            /\ FreeNodes(TrueNodes, TrueBusy) # <<>>) => pc' = "nodes"]_vars
    /\ []((/\ path = "auto"
           /\ pc = "sleeping"
           /\ exc = NoException
           /\ all_nodes = TrueNodes
           /\ busy_nodes = TrueBusy
           /\ FreeNodes(TrueNodes, TrueBusy) # <<>>)
          => /\ batch_plan # <<>>
             /\ PlanCovers(batch_plan, TrueNodes, TrueBusy)
             /\ Len(yaml_files) = Len(batch_plan)
             /\ Len(applied) = Len(batch_plan)
             /\ \A i \in DOMAIN batch_plan :
                   /\ applied[i].name = names[i]
                   /\ names[i] \in FileNames(files))

\* the first cycle wrote manifests and every apply was rejected; the second
\* cycle found both nodes still free and has planned them again
C25_Witness ==
    /\ path = "auto"
    /\ round_num = 2
    /\ pc = "yamls"
    /\ yaml_files = <<>>
    /\ files # {}
    /\ total_occupied = 0
    /\ FileNames(files) \cap cluster_jobs = {}
    /\ all_nodes = TrueNodes
    /\ busy_nodes = TrueBusy
    /\ Len(free_nodes) = 2
    /\ PlanCovers(batch_plan, TrueNodes, TrueBusy)

(***************************************************************************)
(* Claims about the retry loop and the rotation of the name prefixes.      *)
(***************************************************************************)
\* the name the next pass of the for loop proposes on its first attempt
FirstProposal ==
    LET combo == combos[(combo_idx % Len(combos)) + 1]
        prefix == "run-" \o combo[1] \o "-" \o combo[2] \o "-" \o date_str
        used == existing_names \cup Generated
        numbers == {DigitsToInt(x.digits) : x \in {y \in used : y.stem = prefix /\ y.digits # <<>>}}
        top == IF numbers = {} THEN 0 ELSE CHOOSE m \in numbers : \A k \in numbers : k <= m
    IN  [stem |-> prefix, numbers |-> numbers, name |-> Name(prefix, Format02d(top + 1))]

\* C26: the name proposed on the first attempt of a pass has a number above
\* every number under its prefix, so it is neither an existing name nor a name
\* generated before; every pass takes one pair, ends in the retry loop with
\* found set, and appends the proposed name: the fallback name is never made.
C26_FirstAttemptIsFree ==
    /\ [](pc = "gen_loop" => FirstProposal.name \notin existing_names \cup Generated)
    /\ [](names # <<>> => found)
    /\ [](pc # "gen_start" => combo_idx = Len(names))
    /\ [][pc = "gen_loop" =>
            /\ found'
            /\ combo_idx' = combo_idx + 1
            /\ names' = Append(names, FirstProposal.name)
            /\ \A k \in FirstProposal.numbers : k < DigitsToInt(names'[Len(names')].digits)
            /\ names'[Len(names')] \notin existing_names \cup Generated]_vars

\* seven names came out of the retry loop, in seven attempts, while the
\* cluster held names under the prefix that was used twice
C26_Witness ==
    /\ pc = "returned"
    /\ count = 7
    /\ found
    /\ combo_idx = 7
    /\ existing_names = ExistingUniverse
    /\ names[1].stem = "run-qwen3-retool-0615"
    /\ names[1].digits = <<1, 0, 0>>
    /\ names[7].digits = <<1, 0, 1>>

\* names of the call under the prefix of the k-th shuffled pair
NamesUnder(k) ==
    {i \in DOMAIN names : names[i].stem = Prefix(combos[k][1], combos[k][2], date_str)}

\* C27: the i-th name of a call (from 0) has the prefix of pair i mod 6 of the
\* shuffled list; up to six names have pairwise distinct prefixes; and two
\* prefixes never differ by more than one in the number of names they got.
C27_PrefixesRotate ==
    pc # "gen_start" =>
        /\ \A i \in DOMAIN names :
              names[i].stem = Prefix(combos[((i - 1) % 6) + 1][1], combos[((i - 1) % 6) + 1][2], date_str)
        /\ \A i, j \in DOMAIN names : (i # j /\ i <= 6 /\ j <= 6) => names[i].stem # names[j].stem
        /\ \E least \in 0..Len(names) :
              \A k \in DOMAIN combos : Cardinality(NamesUnder(k)) \in {least, least + 1}

\* seven names under a shuffled list: the seventh has the prefix of the first
C27_Witness ==
    /\ pc = "returned"
    /\ count = 7
    /\ combos # Combos
    /\ combos[1] = <<"qwen25", "swebench">>
    /\ names[7].stem = "run-qwen25-swebench-0615"
    /\ Cardinality(NamesUnder(1)) = 2
    /\ Cardinality(NamesUnder(2)) = 1

(***************************************************************************)
(* Claims about busy nodes in a plan.                                      *)
(***************************************************************************)
\* the nodes that host a pod in phase Running or Pending
Hosting ==
    {p.nodeName : p \in {q \in cluster_pods : q.phase \in {"Running", "Pending"} /\ q.nodeName # ""}}

\* C28: in the one-shot path and in a patrol cycle, no node counted free for
\* the plan hosts a Running or Pending pod, and the plan that is written and
\* applied counts, for each instance type, no more nodes than the GPU nodes of
\* that type that host no such pod, whatever the pods query answered.  (No
\* step between the pods query and the last apply changes the pods.)
C28_BusyNodeNeverPlanned ==
    pc \in {"jobs", "names", "select", "yamls", "confirm", "apply", "apply_done"} =>
        /\ \A i \in DOMAIN free_nodes : free_nodes[i].name \notin Hosting
        /\ \A i \in DOMAIN batch_plan :
              SumSizes(BatchesOfType(batch_plan, BatchType(batch_plan[i])))
                  <= FreeCount(all_nodes, Hosting, BatchType(batch_plan[i]))

\* GPU nodes of the cluster with the instance type t
NodesOfType(t) == Cardinality({i \in DOMAIN TrueNodes : TrueNodes[i].instance_type = t})

\* C29: when the cycle before applied batches successfully and this cycle has
\* read the names of the jobs (so that its names are new ones) and has
\* observed no busy node, in the patrol's reads or in _auto_occupy's, the
\* batches this cycle applies successfully and those of the cycle before cover,
\* for each instance type, no more nodes than the cluster has of that type: no
\* node is covered twice while the pods of the first job wait for a node.
C29_NoNodeCoveredTwice ==
    (/\ path = "auto"
     /\ pc \in {"apply", "apply_done"}
     /\ prev_plan # <<>>
     /\ existing_names # {}
     /\ patrol_busy = {}
     /\ busy_nodes = {}) =>
        \A i \in DOMAIN prev_plan :
            SumSizes(BatchesOfType(prev_plan, BatchType(prev_plan[i])))
              + SumSizes(BatchesOfType(SucceededBatches(batch_plan, applied), BatchType(prev_plan[i])))
                <= NodesOfType(BatchType(prev_plan[i]))

(***************************************************************************)
(* Claims about the selection of one batch.                                *)
(***************************************************************************)
\* C30: in the interactive path, selecting one batch leaves a plan of exactly
\* the batch and the job name that stood at the same position of the plan
\* shown; from then on one manifest is written per batch of the plan left, for
\* its name, one apply is issued per manifest, and the directory and the apply
\* log hold nothing for any other name: one file and one apply for a single
\* batch.
C30_SingleBatchOnly ==
    /\ [][(path = "submit" /\ pc = "select" /\ selected' \notin {selected, <<"all">>, <<"cancel">>}) =>
            \E i \in DOMAIN batch_plan :
                /\ selected' = <<Str(i - 1)>>
                /\ batch_plan' = <<batch_plan[i]>>
                /\ names' = <<names[i]>>
                /\ pc' = "yamls"]_vars
    /\ []((/\ path = "submit"
           /\ pc \in {"yamls", "confirm", "apply", "apply_done", "returned"}
           /\ selected \notin {<<>>, <<"all">>, <<"cancel">>}) =>
            /\ Len(batch_plan) = 1
            /\ Len(names) = 1
            /\ Len(yaml_files) <= 1
            /\ Len(applied) <= Len(yaml_files)
            /\ \A i \in DOMAIN yaml_files : yaml_files[i] = names[1]
            /\ \A i \in DOMAIN applied : applied[i].name = names[1]
            /\ FileNames(files) \subseteq {names[1]}
            /\ pc \in {"confirm", "apply", "apply_done"} =>
                  /\ FileNames(files) = {names[1]}
                  /\ TotalReplicas(ManifestOf(names[1])) = BatchSize(batch_plan[1])
                  /\ ManifestOf(names[1]).spec.pytorchReplicaSpecs["Master"].nodeSelector
                        = ("node.kubernetes.io/instance-type" :> BatchType(batch_plan[1]))
            /\ pc = "apply_done" => Len(applied) = 1)
    /\ [][(path = "submit" /\ pc \in {"yamls", "confirm", "apply"}) =>
            (batch_plan' = batch_plan /\ names' = names /\ selected' = selected)]_vars

\* of a plan of two batches the second was selected: one file was written
\* and one apply was issued, for the second name and the second instance type
C30_Witness ==
    /\ path = "submit"
    /\ pc = "apply_done"
    /\ selected = <<"1">>
    /\ count = 2
    /\ Len(free_nodes) = 2
    /\ batch_plan = <<<<1, "unknown">>>>
    /\ names = <<Name("run-qwen3-search-" \o Today, <<0, 1>>)>>
    /\ Cardinality(files) = 1
    /\ Len(applied) = 1
    /\ applied[1].name = names[1]
    /\ ManifestOf(names[1]).spec.pytorchReplicaSpecs["Master"].nodeSelector
          = ("node.kubernetes.io/instance-type" :> "unknown")


====
